---- MODULE Spec2Model ----
(***************************************************************************)
(* Model of skyak_axum_core: the ApiError enum and its IntoResponse impl   *)
(* (src/errors/mod.rs), and the ApiResponse alias with the success and     *)
(* error constructors (src/https/mod.rs).                                  *)
(*                                                                         *)
(* One request at a time is followed: a handler constructs an ApiError or  *)
(* a payload, either converts the error directly or returns an ApiResponse *)
(* that the framework turns into a response.  An earlier error request can *)
(* be remembered so that conversions of two values can be compared.        *)
(***************************************************************************)
EXTENDS Integers, Sequences, FiniteSets, TLC

VARIABLES
    pc,       \* "handler" | "constructed" | "converted" | "returned" |
              \* "responded"
    err,      \* the ApiError value built by the handler (NoError if none)
    data,     \* the payload handed to success() (NoData if none)
    result,   \* the ApiResponse<T> the handler returned (NoResult if none)
    resp,     \* the Response produced for this request (NoResponse if none)
    prev      \* the error and response of an earlier request, if remembered

vars == <<pc, err, data, result, resp, prev>>

---------------------------------------------------------------------------
(* Bounds of the model. *)

\* How far around each edge of the u16 range and of the range accepted by
\* StatusCode::from_u16 the codes carried by Other are drawn.
Near == 1

---------------------------------------------------------------------------
(* Option<T> and Result<T, E> *)

None == [some |-> FALSE]
Some(v) == [some |-> TRUE, val |-> v]

Ok(v) == [ok |-> TRUE, val |-> v]
Err(e) == [ok |-> FALSE, err |-> e]

\* Option::unwrap_or_default on an Option<String>: the empty string for None.
option_unwrap_or_default(opt, default) == IF opt.some THEN opt.val ELSE ""

\* Option::unwrap_or, as used on the carried message.
option_unwrap_or(opt, default) == IF opt.some THEN opt.val ELSE default

\* Result::unwrap in place of unwrap_or: unwinds on Err.  No status is
\* produced then; 0 stands for that, since no StatusCode is 0 (it wraps a
\* NonZeroU16).
result_unwrap(r, default) == IF r.ok THEN r.val ELSE 0

\* Result::unwrap_or, as used on the parsed status of Other.
result_unwrap_or(r, default) == IF r.ok THEN r.val ELSE default

\* Result::is_ok, Result::unwrap and Result::unwrap_err, as the tests use them.
is_ok(r) == r.ok
is_err(r) == ~r.ok
unwrap(r) == CASE r.ok -> r.val
unwrap_err(r) == CASE ~r.ok -> r.err

---------------------------------------------------------------------------
(* http::StatusCode *)

U16 == 0..65535

BAD_REQUEST == 400
NOT_FOUND == 404
UNAUTHORIZED == 401
FORBIDDEN == 403
CONFLICT == 409
TOO_MANY_REQUESTS == 429
SERVICE_UNAVAILABLE == 503
GATEWAY_TIMEOUT == 504

\* The fallback of Other written as BAD_REQUEST.
INTERNAL_SERVER_ERROR_as_bad_request == BAD_REQUEST

INTERNAL_SERVER_ERROR == 500

\* A parser that accepts every u16.
from_u16_unchecked(src) == Ok(src)

\* StatusCode::from_u16: codes 100..=999 are accepted, all others are
\* InvalidStatusCode.
from_u16(src) ==
    IF src >= 100 /\ src < 1000 THEN Ok(src) ELSE Err("InvalidStatusCode")

---------------------------------------------------------------------------
(* ApiError *)

FixedVariants ==
    {"BadRequest", "NotFound", "InternalServerError", "Unauthorized",
     "Forbidden", "Conflict", "TooManyRequests", "ServiceUnavailable",
     "GatewayTimeout"}

Fixed(tag, msg) == [tag |-> tag, msg |-> msg]
Other(code, msg) == [tag |-> "Other", code |-> code, msg |-> msg]

\* The match of into_response: the (status, body) pair of an ApiError.
status_and_body(self) ==
    CASE self.tag = "BadRequest" ->
           <<BAD_REQUEST, "Bad Request">>
      [] self.tag = "NotFound" ->
           <<NOT_FOUND, option_unwrap_or(self.msg, "Not Found")>>
      [] self.tag = "InternalServerError" ->
           <<INTERNAL_SERVER_ERROR,
             option_unwrap_or(self.msg, "Internal Server Error")>>
      [] self.tag = "Unauthorized" ->
           <<UNAUTHORIZED, option_unwrap_or(self.msg, "Unauthorized")>>
      [] self.tag = "Forbidden" ->
           <<FORBIDDEN, option_unwrap_or(self.msg, "Forbidden")>>
      [] self.tag = "Conflict" ->
           <<CONFLICT, option_unwrap_or(self.msg, "Conflict")>>
      [] self.tag = "TooManyRequests" ->
           <<TOO_MANY_REQUESTS,
             option_unwrap_or(self.msg, "Too Many Requests")>>
      [] self.tag = "ServiceUnavailable" ->
           <<SERVICE_UNAVAILABLE,
             option_unwrap_or(self.msg, "Service Unavailable")>>
      [] self.tag = "GatewayTimeout" ->
           <<GATEWAY_TIMEOUT, option_unwrap_or(self.msg, "Gateway Timeout")>>
      [] self.tag = "Other" ->
           <<result_unwrap_or(from_u16(self.code), INTERNAL_SERVER_ERROR),
             option_unwrap_or(self.msg, "Other Error")>>

\* A response builder that answers an empty body with 204 No Content.
tuple_into_response_no_content(t) ==
    [status |-> IF t[2] = "" THEN 204 ELSE t[1],
     content_type |-> "text/plain; charset=utf-8",
     body |-> t[2]]

\* (StatusCode, String)::into_response: a plain-text response.
tuple_into_response(t) ==
    [status |-> t[1],
     content_type |-> "text/plain; charset=utf-8",
     body |-> t[2]]

\* <ApiError as IntoResponse>::into_response
into_response(self) == tuple_into_response(status_and_body(self))

---------------------------------------------------------------------------
(* ApiResponse<T>, success, error *)

\* axum::Json<T> is a tuple struct; its field .0 is index 1 here.
Json(d) == <<d>>

\* A String payload is the sequence of its chars, each a Unicode scalar
\* value; the body of a JSON response is the sequence of its bytes.

\* The lower-case hexadecimal digit of n, as a byte.
hex_digit(n) == IF n < 10 THEN 48 + n ELSE 87 + n

\* The UTF-8 encoding of a char.
utf8(c) ==
    IF c < 128 THEN <<c>>
    ELSE IF c < 2048 THEN <<192 + (c \div 64), 128 + (c % 64)>>
    ELSE IF c < 65536 THEN
        <<224 + (c \div 4096), 128 + ((c \div 64) % 64), 128 + (c % 64)>>
    ELSE
        <<240 + (c \div 262144), 128 + ((c \div 4096) % 64),
          128 + ((c \div 64) % 64), 128 + (c % 64)>>

\* serde_json's escaping of one char of a string: \" and \\ for the quote
\* and the backslash, \b \t \n \f \r for those control characters, \u00xx
\* for every other char below 0x20, and the char itself otherwise.
escape_char(c) ==
    CASE c = 34 -> <<92, 34>>
      [] c = 92 -> <<92, 92>>
      [] c = 8 -> <<92, 98>>
      [] c = 9 -> <<92, 116>>
      [] c = 10 -> <<92, 110>>
      [] c = 12 -> <<92, 102>>
      [] c = 13 -> <<92, 114>>
      [] c < 32 /\ c \notin {8, 9, 10, 12, 13} ->
           <<92, 117, 48, 48, hex_digit(c \div 16), hex_digit(c % 16)>>
      [] OTHER -> utf8(c)

RECURSIVE escape_str(_)
escape_str(s) ==
    IF s = <<>> THEN <<>> ELSE escape_char(Head(s)) \o escape_str(Tail(s))

\* serde_json's encoding of a String: the escaped chars between quotes.
to_json(s) == <<34>> \o escape_str(s) \o <<34>>

\* <Json<T> as IntoResponse>::into_response for T = String
json_into_response(j) ==
    [status |-> 200,
     content_type |-> "application/json",
     body |-> to_json(j[1])]

\* success wrapping the payload in Err.
success_as_err(d) == Err(Json(d))

\* https::success
success(d) == Ok(Json(d))

\* error wrapping every failure as an InternalServerError.
error_as_internal(e) == Err(Fixed("InternalServerError", e.msg))

\* error dropping the carried message.
error_dropping_message(e) == Err([e EXCEPT !.msg = None])

\* https::error
error(e) == Err(e)

\* <Result<Json<T>, ApiError> as IntoResponse>::into_response
result_into_response(r) ==
    IF r.ok THEN json_into_response(r.val) ELSE into_response(r.err)

---------------------------------------------------------------------------
(* Inputs *)

Messages == {"", "User not found", "I'm a teapot"}
OptMessages == {None} \cup {Some(m) : m \in Messages}

\* "Test data", the payload of test_success.
TestData == <<84, 101, 115, 116, 32, 100, 97, 116, 97>>

\* "Hello, world!", the payload of the example of success.
HelloWorld == <<72, 101, 108, 108, 111, 44, 32, 119, 111, 114, 108, 100, 33>>

\* The empty string, the two payloads above, and strings with a quote, a
\* backslash, a line feed, a tab, the control character 0x01, DEL, and chars
\* of two, three and four UTF-8 bytes.
Payloads ==
    {<<>>, TestData, HelloWorld, <<97, 34, 98>>, <<97, 92, 98>>,
     <<108, 10, 98>>, <<9>>, <<1, 127>>, <<233>>, <<8364>>, <<128512>>}

Codes ==
    ((0..Near) \cup ((100 - Near)..(100 + Near))
        \cup ((999 - Near)..(999 + Near)) \cup ((65535 - Near)..65535)
        \cup {200, 404, 418, 500})
    \cap U16

ApiErrors ==
    {Fixed(t, m) : t \in FixedVariants, m \in OptMessages}
    \cup {Other(c, m) : c \in Codes, m \in OptMessages}

NoError == [tag |-> "NoError", msg |-> None]
NoData == None
NoResult == [ok |-> FALSE, err |-> NoError]
NoResponse == [status |-> 0, content_type |-> "", body |-> ""]

---------------------------------------------------------------------------
(* State machine *)

Init ==
    /\ pc = "handler"
    /\ err = NoError
    /\ data = NoData
    /\ result = NoResult
    /\ resp = NoResponse
    /\ prev = None

\* The handler builds an ApiError value; no variant validates its fields.
Construct(e) ==
    /\ pc = "handler"
    /\ err' = e
    /\ pc' = "constructed"
    /\ UNCHANGED <<data, result, resp, prev>>

\* The error value is converted directly with into_response.
Convert ==
    /\ pc = "constructed"
    /\ resp' = into_response(err)
    /\ pc' = "converted"
    /\ UNCHANGED <<err, data, result, prev>>

\* The handler returns error(err).
ReturnError ==
    /\ pc = "constructed"
    /\ result' = error(err)
    /\ pc' = "returned"
    /\ UNCHANGED <<err, data, resp, prev>>

\* The handler returns success(d).
ReturnSuccess(d) ==
    /\ pc = "handler"
    /\ data' = Some(d)
    /\ result' = success(d)
    /\ pc' = "returned"
    /\ UNCHANGED <<err, resp, prev>>

\* The framework turns the returned ApiResponse into a response.
Respond ==
    /\ pc = "returned"
    /\ resp' = result_into_response(result)
    /\ pc' = "responded"
    /\ UNCHANGED <<err, data, result, prev>>

\* The request is over; the next handler call starts from nothing.
Reset ==
    /\ pc' = "handler"
    /\ err' = NoError
    /\ data' = NoData
    /\ result' = NoResult
    /\ resp' = NoResponse

\* The request ends and is forgotten.
NextRequest ==
    /\ pc \in {"converted", "responded"}
    /\ Reset
    /\ UNCHANGED prev

\* The request ends; its error and response are kept for comparison with
\* a later one.
NextRequestRemembered ==
    /\ pc \in {"converted", "responded"}
    /\ err /= NoError
    /\ Reset
    /\ prev' = Some([err |-> err, resp |-> resp])

Next ==
    \/ \E e \in ApiErrors : Construct(e)
    \/ Convert
    \/ ReturnError
    \/ \E d \in Payloads : ReturnSuccess(d)
    \/ Respond
    \/ NextRequest
    \/ NextRequestRemembered

Spec == Init /\ [][Next]_vars

---------------------------------------------------------------------------
(* The documented behaviour: the table of the ApiError documentation. *)

Documented ==
    [BadRequest          |-> [status |-> 400, message |-> "Bad Request"],
     NotFound            |-> [status |-> 404, message |-> "Not Found"],
     InternalServerError |-> [status |-> 500,
                              message |-> "Internal Server Error"],
     Unauthorized        |-> [status |-> 401, message |-> "Unauthorized"],
     Forbidden           |-> [status |-> 403, message |-> "Forbidden"],
     Conflict            |-> [status |-> 409, message |-> "Conflict"],
     TooManyRequests     |-> [status |-> 429, message |-> "Too Many Requests"],
     ServiceUnavailable  |-> [status |-> 503,
                              message |-> "Service Unavailable"],
     GatewayTimeout      |-> [status |-> 504, message |-> "Gateway Timeout"]]

TableStatuses == {Documented[t].status : t \in FixedVariants}

\* The status codes of the IANA HTTP status code registry.
RegisteredStatusCodes ==
    (100..104) \cup (200..208) \cup {226} \cup (300..308) \cup (400..418)
    \cup (421..426) \cup {428, 429, 431, 451} \cup (500..508) \cup {510, 511}

\* The values a StatusCode can hold.
StatusCodes == 100..999

\* An error value has been converted in this request, directly or by the
\* framework from the handler's returned ApiResponse.
Converted ==
    \/ pc = "converted"
    \/ pc = "responded" /\ err /= NoError

\* The handler has returned error(err).
ErrorReturned == pc \in {"returned", "responded"} /\ err /= NoError

\* The handler has returned success(data).
SuccessReturned == pc \in {"returned", "responded"} /\ data.some

---------------------------------------------------------------------------
(* Claims *)

\* C1: converting a fixed-status variant that carries a message m yields
\* the documented status of the variant and the body m exactly.
C1_CustomMessageVerbatim ==
    (Converted /\ err.tag \in FixedVariants /\ err.msg.some) =>
        /\ resp.status = Documented[err.tag].status
        /\ resp.body = err.msg.val

\* C2: converting a fixed-status variant that carries no message yields the
\* documented status and the documented default message of the variant.
C2_DefaultStatusAndMessage ==
    (Converted /\ err.tag \in FixedVariants /\ ~err.msg.some) =>
        /\ resp.status = Documented[err.tag].status
        /\ resp.body = Documented[err.tag].message

C2_Witness ==
    /\ Converted
    /\ err = Fixed("TooManyRequests", None)
    /\ resp.status = 429
    /\ resp.body = "Too Many Requests"

\* C3: converting Other(c, msg) yields status c when from_u16 accepts c and
\* status 500 when it does not; the body is msg when present and
\* "Other Error" when absent.
C3_OtherStatusAndBody ==
    (Converted /\ err.tag = "Other") =>
        /\ resp.status = IF from_u16(err.code).ok THEN err.code ELSE 500
        /\ resp.body = IF err.msg.some THEN err.msg.val ELSE "Other Error"

C3_Witness ==
    /\ Converted
    /\ err = Other(418, Some("I'm a teapot"))
    /\ resp.status = 418
    /\ resp.body = "I'm a teapot"
    /\ prev.some
    /\ prev.val.err = Other(1000, None)
    /\ prev.val.resp.status = 500
    /\ prev.val.resp.body = "Other Error"

\* C4: success(data) is the Ok case, never the Err case, and unwrapping it
\* gives back data unchanged.
C4_SuccessRoundTrip ==
    SuccessReturned =>
        /\ is_ok(result)
        /\ ~is_err(result)
        /\ unwrap(result)[1] = data.val

C4_Witness ==
    /\ pc = "returned"
    /\ data = Some(TestData)
    /\ is_ok(result)
    /\ unwrap(result)[1] = TestData

\* C5: error(e) is the Err case, never the Ok case, and unwrapping the Err
\* case gives back a value with the variant, code and message of e.
C5_ErrorRoundTrip ==
    ErrorReturned =>
        /\ is_err(result)
        /\ ~is_ok(result)
        /\ unwrap_err(result) = err

C5_Witness ==
    /\ pc = "returned"
    /\ err = Other(65535, Some("User not found"))
    /\ is_err(result)
    /\ unwrap_err(result).tag = "Other"
    /\ unwrap_err(result).code = 65535
    /\ unwrap_err(result).msg = Some("User not found")

\* C6 as stated: the status of every converted error is a registered HTTP
\* status code (one of the table for a fixed-status variant), also for
\* Other(c, msg) with any c, and the body is text.
C6_RegisteredStatus ==
    Converted =>
        /\ resp.status \in RegisteredStatusCodes
        /\ err.tag \in FixedVariants => resp.status \in TableStatuses
        /\ resp.content_type = "text/plain; charset=utf-8"

\* C6 as amended: the status of every converted error is a code from_u16
\* accepts, that is a code of 100..999; it is one of the table for a
\* fixed-status variant, the code of Other itself whenever that code is in
\* 100..999, and 500 for every other code of Other; it is a registered
\* code except when Other carries an unregistered code of 100..999, which
\* is passed through; the body is text.
C6_StatusInParsedRange ==
    Converted =>
        /\ resp.status \in 100..999
        /\ err.tag \in FixedVariants => resp.status \in TableStatuses
        /\ (err.tag = "Other" /\ err.code \in 100..999) =>
               resp.status = err.code
        /\ (err.tag = "Other" /\ err.code \notin 100..999) =>
               resp.status = 500
        /\ resp.status \notin RegisteredStatusCodes =>
               /\ err.tag = "Other"
               /\ err.code \in 100..999
               /\ err.code \notin RegisteredStatusCodes
               /\ resp.status = err.code
        /\ resp.content_type = "text/plain; charset=utf-8"

C6_Witness ==
    /\ Converted
    /\ err.tag = "Other"
    /\ err.code = 999
    /\ resp.status = 999
    /\ resp.status \notin RegisteredStatusCodes

\* C7: conversion never fails: an error value of any variant, message and
\* code can be constructed, a constructed value can always be converted,
\* every conversion ends with a response that holds a StatusCode, and an
\* Other whose code from_u16 rejects shows only as the 500 fallback.
C7_ConversionTotal ==
    /\ pc = "handler" => \A e \in ApiErrors : ENABLED Construct(e)
    /\ pc = "constructed" => ENABLED Convert
    /\ Converted =>
        /\ resp /= NoResponse
        /\ resp.status \in StatusCodes
        /\ (err.tag = "Other" /\ ~from_u16(err.code).ok) =>
               resp.status = 500

C7_Witness ==
    /\ pc = "converted"
    /\ err = Other(65535, None)
    /\ ~from_u16(err.code).ok
    /\ resp.status = 500
    /\ resp.body = "Other Error"

\* C8 (determinism of the conversion) has no formula here: into_response
\* is an operator of its argument alone, as the code is a function of self
\* alone, so two conversions of equal values agree by definition.

\* C9: the response the framework produces for a handler that returned
\* error(e) has the status and body of converting e directly; for
\* NotFound(Some("User not found")) that is 404 and "User not found".
C9_HandlerErrorResponse ==
    (pc = "responded" /\ err /= NoError) =>
        /\ resp.status = into_response(err).status
        /\ resp.body = into_response(err).body
        /\ err = Fixed("NotFound", Some("User not found")) =>
               /\ resp.status = 404
               /\ resp.body = "User not found"

C9_Witness ==
    /\ pc = "responded"
    /\ result = Err(Fixed("NotFound", Some("User not found")))
    /\ resp.status = 404
    /\ resp.body = "User not found"

\* C10: the status depends only on the variant and, for Other, its code,
\* never on the carried message; the body of Other does not depend on its
\* code.
C10_StatusIgnoresMessage ==
    (Converted /\ prev.some) =>
        /\ (/\ prev.val.err.tag = err.tag
            /\ err.tag = "Other" => prev.val.err.code = err.code) =>
               resp.status = prev.val.resp.status
        /\ (/\ prev.val.err.tag = "Other"
            /\ err.tag = "Other"
            /\ prev.val.err.msg = err.msg) =>
               resp.body = prev.val.resp.body

C10_Witness ==
    /\ Converted
    /\ prev.some
    /\ prev.val.err = Other(418, None)
    /\ err = Other(418, Some(""))
    /\ resp.status = 418
    /\ prev.val.resp.status = 418

====
